---- MODULE Spec2Model ----
(***************************************************************************)
(* Auth-Fusion: raw request parsing, credential substitution, replay and   *)
(* response classification (src/auth_fusion).                              *)
(*                                                                         *)
(* Python strings are modelled as sequences of one-character strings, so   *)
(* that lower(), strip(), split() and find() are computed character by     *)
(* character.  A Python dict is modelled as a function whose DOMAIN is the *)
(* set of its keys (dict equality ignores insertion order).                *)
(***************************************************************************)
EXTENDS Integers, Sequences, FiniteSets, TLC

VARIABLES
    pc,          \* position of main(): "start", "load", "parse", "replay", "report", "exited"
    args,        \* the argparse namespace, None before parse_args returned
    raw_text,    \* text returned by load_request_file, None before
    parsed,      \* ParsedRequest returned by parse_raw_request, None before
    sent,        \* sequence of the calls made to requests.request
    result,      \* ReplayResult returned by replay_request, None before
    stdout,      \* sequence of the progress/report blocks printed to stdout
    stderr,      \* sequence of the diagnostics printed to stderr
    exit_code,   \* process exit status, None while the process runs
    call,        \* unit harness: the pending call of a pure function
    ret          \* unit harness: the value it returned, None before

vars == <<pc, args, raw_text, parsed, sent, result, stdout, stderr, exit_code, call, ret>>

\* an optional value is a sequence of length 0 (Python's None) or 1
None == <<>>

Some(x) == <<x>>

----------------------------------------------------------------------------
(* Python str primitives *)

UPPER_LETTERS == <<"A", "B", "C", "D", "E", "F", "G", "H", "I", "J", "K", "L", "M", "N", "O", "P", "Q", "R", "S", "T", "U", "V", "W", "X", "Y", "Z">>

LOWER_LETTERS == <<"a", "b", "c", "d", "e", "f", "g", "h", "i", "j", "k", "l", "m", "n", "o", "p", "q", "r", "s", "t", "u", "v", "w", "x", "y", "z">>

lower_char(c) ==
    IF \E i \in DOMAIN UPPER_LETTERS : UPPER_LETTERS[i] = c
    THEN LOWER_LETTERS[CHOOSE i \in DOMAIN UPPER_LETTERS : UPPER_LETTERS[i] = c]
    ELSE c

upper_char(c) ==
    IF \E i \in DOMAIN LOWER_LETTERS : LOWER_LETTERS[i] = c
    THEN UPPER_LETTERS[CHOOSE i \in DOMAIN LOWER_LETTERS : LOWER_LETTERS[i] = c]
    ELSE c

\* str.lower()
lower(s) == [i \in 1..Len(s) |-> lower_char(s[i])]

\* str.upper()
upper(s) == [i \in 1..Len(s) |-> upper_char(s[i])]

\* the characters str.strip() and str.split() treat as whitespace
WHITESPACE == {" ", "\t", "\n", "\r", "\f"}

\* str.lstrip()
RECURSIVE lstrip(_)
lstrip(s) ==
    IF s # <<>> /\ Head(s) \in WHITESPACE THEN lstrip(Tail(s)) ELSE s

\* str.rstrip()
RECURSIVE rstrip(_)
rstrip(s) ==
    IF s # <<>> /\ s[Len(s)] \in WHITESPACE THEN rstrip(SubSeq(s, 1, Len(s) - 1)) ELSE s

\* str.strip()
strip(s) == rstrip(lstrip(s))

\* str.rstrip(chars) for a one-character argument: every trailing occurrence goes
RECURSIVE rstrip_char(_, _)
rstrip_char(s, c) ==
    IF s # <<>> /\ s[Len(s)] = c THEN rstrip_char(SubSeq(s, 1, Len(s) - 1), c) ELSE s

\* str.startswith(prefix)
startswith(s, p) == Len(s) >= Len(p) /\ SubSeq(s, 1, Len(p)) = p

\* s[:n]
prefix(s, n) == SubSeq(s, 1, IF Len(s) < n THEN Len(s) ELSE n)

\* str.find(sub): the lowest 0-based index of sub in s, -1 when absent
find(s, sub) ==
    LET hits == {i \in 1..(Len(s) - Len(sub) + 1) : SubSeq(s, i, i + Len(sub) - 1) = sub}
    IN  IF hits = {} THEN -1
        ELSE (CHOOSE i \in hits : \A j \in hits : i <= j) - 1

----------------------------------------------------------------------------
(* dict primitives *)

EMPTY_DICT == [k \in {} |-> <<>>]

\* d[k] = v
dict_set(d, k, v) == [x \in (DOMAIN d) \cup {k} |-> IF x = k THEN v ELSE d[x]]

----------------------------------------------------------------------------
(* parser.py *)

\* parse_raw_request without the replace of "\r\n"
replace_crlf_skipped(s) == s

\* raw_text.replace("\r\n", "\n")
RECURSIVE replace_crlf(_)
replace_crlf(s) ==
    IF s = <<>> THEN <<>>
    ELSE IF Len(s) >= 2 /\ s[1] = "\r" /\ s[2] = "\n"
         THEN <<"\n">> \o replace_crlf(SubSeq(s, 3, Len(s)))
         ELSE <<s[1]>> \o replace_crlf(Tail(s))

\* str.split(sep) for a one-character separator: never empty, keeps empty pieces
RECURSIVE split_char(_, _)
split_char(s, sep) ==
    LET idx == find(s, <<sep>>)
    IN  IF idx = -1 THEN <<s>>
        ELSE <<SubSeq(s, 1, idx)>> \o split_char(SubSeq(s, idx + 2, Len(s)), sep)

\* str.split(): pieces between runs of whitespace, no empty piece
RECURSIVE split_whitespace(_)
split_whitespace(s) ==
    LET t == lstrip(s)
        stops == {i \in 1..Len(t) : t[i] \in WHITESPACE}
        stop == IF stops = {} THEN Len(t) + 1 ELSE CHOOSE i \in stops : \A j \in stops : i <= j
    IN  IF t = <<>> THEN <<>>
        ELSE <<SubSeq(t, 1, stop - 1)>> \o split_whitespace(SubSeq(t, stop, Len(t)))

BLANK_LINE == <<"\n", "\n">>

\* normalized.split("\n\n", 1)[0], or the whole text when there is no blank line
split_head(normalized) ==
    LET idx == find(normalized, BLANK_LINE)
    IN  IF idx # -1 THEN SubSeq(normalized, 1, idx) ELSE normalized

\* split_body keeping body.strip() for body
split_body_stripped(normalized) ==
    LET idx == find(normalized, BLANK_LINE)
        body == SubSeq(normalized, idx + 3, Len(normalized))
    IN  IF idx # -1
        THEN (IF strip(body) # <<>> THEN Some(strip(body)) ELSE None)
        ELSE None

\* the body after the first blank line; None when absent or empty once stripped
split_body(normalized) ==
    LET idx == find(normalized, BLANK_LINE)
        body == SubSeq(normalized, idx + 3, Len(normalized))
    IN  IF idx # -1
        THEN (IF strip(body) # <<>> THEN Some(body) ELSE None)
        ELSE None

\* the header loop keeping the first value of a repeated name
RECURSIVE parse_headers_first_wins(_, _)
parse_headers_first_wins(lines, headers) ==
    IF lines = <<>> THEN headers
    ELSE LET line == strip(Head(lines))
             colon_idx == find(line, <<":">>)
             key == strip(SubSeq(line, 1, colon_idx))
             value == strip(SubSeq(line, colon_idx + 2, Len(line)))
         IN  IF line = <<>> THEN parse_headers_first_wins(Tail(lines), headers)
             ELSE IF colon_idx = -1 THEN parse_headers_first_wins(Tail(lines), headers)
             ELSE IF key \in DOMAIN headers THEN parse_headers_first_wins(Tail(lines), headers)
             ELSE parse_headers_first_wins(Tail(lines), dict_set(headers, key, value))

\* the header loop of parse_raw_request over lines[1:]
RECURSIVE parse_headers(_, _)
parse_headers(lines, headers) ==
    IF lines = <<>> THEN headers
    ELSE LET line == strip(Head(lines))
             colon_idx == find(line, <<":">>)
             key == strip(SubSeq(line, 1, colon_idx))
             value == strip(SubSeq(line, colon_idx + 2, Len(line)))
         IN  IF line = <<>> THEN parse_headers(Tail(lines), headers)
             ELSE IF colon_idx = -1 THEN parse_headers(Tail(lines), headers)
             ELSE parse_headers(Tail(lines), dict_set(headers, key, value))

\* parse_raw_request asking the request line for three parts
parse_raw_request_three_parts(text) ==
    LET normalized == replace_crlf(text)
        head == split_head(normalized)
        body == split_body(normalized)
        lines == split_char(head, "\n")
        request_line == strip(lines[1])
        parts == split_whitespace(request_line)
    IN  IF Len(parts) < 3
        THEN [raised |-> TRUE, error |-> "ValueError", line |-> request_line]
        ELSE [raised |-> FALSE,
              value |-> [method |-> upper(parts[1]),
                         path |-> parts[2],
                         headers |-> parse_headers(Tail(lines), EMPTY_DICT),
                         body |-> body]]

\* parse_raw_request: [raised |-> FALSE, value |-> ParsedRequest], or the
\* ValueError with the request line it quotes
parse_raw_request(text) ==
    LET normalized == replace_crlf(text)
        head == split_head(normalized)
        body == split_body(normalized)
        lines == split_char(head, "\n")
        request_line == strip(lines[1])
        parts == split_whitespace(request_line)
    IN  IF Len(parts) < 2
        THEN [raised |-> TRUE, error |-> "ValueError", line |-> request_line]
        ELSE [raised |-> FALSE,
              value |-> [method |-> upper(parts[1]),
                         path |-> parts[2],
                         headers |-> parse_headers(Tail(lines), EMPTY_DICT),
                         body |-> body]]

----------------------------------------------------------------------------
(* engine.py *)

SUCCESS_CODES == 200..299

MIN_BODY_LENGTH == 2

SNIPPET_LENGTH == 200

AUTHORIZATION_LOWER == <<"a", "u", "t", "h", "o", "r", "i", "z", "a", "t", "i", "o", "n">>

AUTHORIZATION_KEY == <<"A", "u", "t", "h", "o", "r", "i", "z", "a", "t", "i", "o", "n">>

BEARER_PREFIX == <<"B", "e", "a", "r", "e", "r", " ">>

HOST_LOWER == <<"h", "o", "s", "t">>

\* f"Bearer {attacker_token}"
bearer(attacker_token) == BEARER_PREFIX \o attacker_token

\* swap_token comparing the key with "Authorization" as spelled
swap_token_case_sensitive(headers, attacker_token) ==
    LET new_headers == [key \in DOMAIN headers |->
                            IF key = AUTHORIZATION_KEY THEN bearer(attacker_token) ELSE headers[key]]
    IN  IF AUTHORIZATION_KEY \notin DOMAIN headers
        THEN dict_set(new_headers, AUTHORIZATION_KEY, bearer(attacker_token))
        ELSE new_headers

\* swap_token adding "Authorization" whether or not the loop swapped a token
swap_token_always_adds(headers, attacker_token) ==
    dict_set([key \in DOMAIN headers |->
                 IF lower(key) = AUTHORIZATION_LOWER THEN bearer(attacker_token) ELSE headers[key]],
             AUTHORIZATION_KEY, bearer(attacker_token))

\* swap_token_loop writing f"Bearer {value}", the header's own value, for f"Bearer {attacker_token}"
swap_token_loop_wraps_value(headers, attacker_token) ==
    [key \in DOMAIN headers |->
        IF lower(key) = AUTHORIZATION_LOWER THEN bearer(headers[key]) ELSE headers[key]]

\* the loop of swap_token over headers.items(): keys are distinct, so every
\* iteration writes its own key of new_headers
swap_token_loop(headers, attacker_token) ==
    [key \in DOMAIN headers |->
        IF lower(key) = AUTHORIZATION_LOWER THEN bearer(attacker_token) ELSE headers[key]]

\* token_swapped after the loop
token_swapped(headers) == \E key \in DOMAIN headers : lower(key) = AUTHORIZATION_LOWER

swap_token(headers, attacker_token) ==
    LET new_headers == swap_token_loop(headers, attacker_token)
    IN  IF ~token_swapped(headers)
        THEN dict_set(new_headers, AUTHORIZATION_KEY, bearer(attacker_token))
        ELSE new_headers

\* remove_host deleting the key "Host" as spelled only
remove_host_exact(swapped_headers) ==
    [key \in {k \in DOMAIN swapped_headers : k # <<"H", "o", "s", "t">>} |-> swapped_headers[key]]

\* the loop of replay_request that deletes every key whose lower() is "host"
remove_host(swapped_headers) ==
    [key \in {k \in DOMAIN swapped_headers : lower(k) # HOST_LOWER} |-> swapped_headers[key]]

\* build_url removing one trailing slash of the host only
build_url_one_slash(target_host, path, use_https) ==
    LET scheme == IF use_https THEN <<"h", "t", "t", "p", "s">> ELSE <<"h", "t", "t", "p">>
        host   == IF target_host # <<>> /\ target_host[Len(target_host)] = "/"
                  THEN SubSeq(target_host, 1, Len(target_host) - 1) ELSE target_host
        path2  == IF ~startswith(path, <<"/">>) THEN <<"/">> \o path ELSE path
    IN  scheme \o <<":", "/", "/">> \o host \o path2

build_url(target_host, path, use_https) ==
    LET scheme == IF use_https THEN <<"h", "t", "t", "p", "s">> ELSE <<"h", "t", "t", "p">>
        host   == rstrip_char(target_host, "/")
        path2  == IF ~startswith(path, <<"/">>) THEN <<"/">> \o path ELSE path
    IN  scheme \o <<":", "/", "/">> \o host \o path2

\* analyze_response measuring response.text without strip()
analyze_response_unstripped(status_code, text) ==
    LET code == status_code
        body == text
    IN  IF code \in {401, 403}
        THEN [is_vulnerable |-> FALSE, tag |-> "[SAFE]", code |-> code, snippet |-> None]
        ELSE IF code = 404
        THEN [is_vulnerable |-> FALSE, tag |-> "[INCONCLUSIVE]", code |-> 404, snippet |-> None]
        ELSE IF code \in SUCCESS_CODES /\ Len(body) >= MIN_BODY_LENGTH
        THEN [is_vulnerable |-> TRUE, tag |-> "[VULNERABLE]", code |-> code,
              snippet |-> Some(prefix(body, SNIPPET_LENGTH))]
        ELSE IF code \in SUCCESS_CODES
        THEN [is_vulnerable |-> FALSE, tag |-> "[LIKELY SAFE]", code |-> code, snippet |-> None]
        ELSE [is_vulnerable |-> FALSE, tag |-> "[MANUAL REVIEW]", code |-> code, snippet |-> None]

\* analyze_response on response.status_code and response.text; the analysis
\* message is kept as its tag, the status code it quotes and the snippet
analyze_response(status_code, text) ==
    LET code == status_code
        body == strip(text)
    IN  IF code \in {401, 403}
        THEN [is_vulnerable |-> FALSE, tag |-> "[SAFE]", code |-> code, snippet |-> None]
        ELSE IF code = 404
        THEN [is_vulnerable |-> FALSE, tag |-> "[INCONCLUSIVE]", code |-> 404, snippet |-> None]
        ELSE IF code \in SUCCESS_CODES /\ Len(body) >= MIN_BODY_LENGTH
        THEN [is_vulnerable |-> TRUE, tag |-> "[VULNERABLE]", code |-> code,
              snippet |-> Some(prefix(body, SNIPPET_LENGTH))]
        ELSE IF code \in SUCCESS_CODES
        THEN [is_vulnerable |-> FALSE, tag |-> "[LIKELY SAFE]", code |-> code, snippet |-> None]
        ELSE [is_vulnerable |-> FALSE, tag |-> "[MANUAL REVIEW]", code |-> code, snippet |-> None]

\* the dict objects of a call: the one given as headers, and the one
\* swap_token creates with new_headers = {}
HEADERS == "headers"
NEW_HEADERS == "new_headers"

\* the objects at the start of a call given the mapping headers
heap_of(headers) ==
    [o \in {HEADERS, NEW_HEADERS} |-> IF o = HEADERS THEN headers ELSE EMPTY_DICT]

\* swap_token writing into the dict it was given and returning it
swap_token_in_place(heap, headers, attacker_token) ==
    [heap |-> [heap EXCEPT ![headers] = swap_token(heap[headers], attacker_token)],
     returned |-> headers]

\* swap_token on objects: it reads the dict it was given, fills the new dict
\* and returns the new one
swap_token_call(heap, headers, attacker_token) ==
    [heap |-> [heap EXCEPT ![NEW_HEADERS] = swap_token(heap[headers], attacker_token)],
     returned |-> NEW_HEADERS]

\* del swapped_headers[key] in replay_request: the dict the name refers to loses
\* its Host keys
remove_host_call(heap, swapped_headers) ==
    [heap EXCEPT ![swapped_headers] = remove_host(heap[swapped_headers])]

\* the objects of replay_request when it calls requests.request
replay_heap(parsed_request, attacker_token) ==
    LET swapped == swap_token_call(heap_of(parsed_request.headers), HEADERS, attacker_token)
    IN  [heap |-> remove_host_call(swapped.heap, swapped.returned),
         swapped_headers |-> swapped.returned]

\* requests.request(method=..., url=..., headers=..., data=..., proxies=...,
\* timeout=..., verify=False, allow_redirects=False) as replay_request makes it
outbound_call(parsed_request, attacker_token, target_host, use_https, proxy, timeout) ==
    LET objects == replay_heap(parsed_request, attacker_token)
        swapped_headers == objects.heap[objects.swapped_headers]
        url == build_url(target_host, parsed_request.path, use_https)
        proxies == IF proxy # None /\ proxy[1] # <<>>
                   THEN Some([http |-> proxy[1], https |-> proxy[1]])
                   ELSE None
    IN  [method |-> parsed_request.method,
         url |-> url,
         headers |-> swapped_headers,
         data |-> parsed_request.body,
         proxies |-> proxies,
         timeout |-> timeout,
         verify |-> FALSE,
         allow_redirects |-> FALSE]

\* ReplayResult(...) built by replay_request from the response
ReplayResult(response) ==
    LET verdict == analyze_response(response.status_code, response.text)
    IN  [status_code |-> response.status_code,
         headers |-> response.headers,
         body |-> response.text,
         is_vulnerable |-> verdict.is_vulnerable,
         analysis |-> [tag |-> verdict.tag, code |-> verdict.code, snippet |-> verdict.snippet]]

DEFAULT_TIMEOUT == 30

----------------------------------------------------------------------------
(* cli.py *)

\* validate_args without the check of the attacker token
validate_args_token_unchecked(ns, isfile, readable) ==
    IF ~isfile
    THEN Some([message |-> "Error: Request file not found", status |-> 1])
    ELSE IF ~readable
    THEN Some([message |-> "Error: Request file is not readable", status |-> 1])
    ELSE IF strip(ns.target_host) = <<>>
    THEN Some([message |-> "Error: Target host cannot be empty.", status |-> 1])
    ELSE None

\* validate_args: the diagnostic and the status of the sys.exit it makes, or
\* None when every check passes; isfile and readable are os.path.isfile and
\* os.access(..., os.R_OK) on args.request_file
validate_args(ns, isfile, readable) ==
    IF ~isfile
    THEN Some([message |-> "Error: Request file not found", status |-> 1])
    ELSE IF ~readable
    THEN Some([message |-> "Error: Request file is not readable", status |-> 1])
    ELSE IF strip(ns.attacker_token) = <<>>
    THEN Some([message |-> "Error: Attacker token cannot be empty.", status |-> 1])
    ELSE IF strip(ns.target_host) = <<>>
    THEN Some([message |-> "Error: Target host cannot be empty.", status |-> 1])
    ELSE None

----------------------------------------------------------------------------
(* __main__.py *)

\* the except clause around load_request_file: (FileNotFoundError, IOError);
\* IOError is OSError, of which PermissionError is a subclass, and
\* UnicodeDecodeError (a ValueError) is not
load_error_caught(exc) == exc \in {"FileNotFoundError", "PermissionError"}

\* the status main returns after print_report
verdict_status(replay_result) == IF replay_result.is_vulnerable THEN 1 ELSE 0

----------------------------------------------------------------------------
(* The inputs of a run *)

\* the most header lines of a captured request
MaxHeaders == 2

LF == <<"\n">>

CRLF == <<"\r", "\n">>

RequestLines ==
    { <<"G", "E", "T", " ", "/", "x", " ", "H", "T", "T", "P", "/", "1", ".", "1">>,
      <<"B", "A", "D">> }

HeaderLines ==
    { <<"H", "o", "s", "t", ":", " ", "v">>,
      <<"h", "o", "s", "t", ":", " ", "v">>,
      <<"A", "u", "t", "h", "o", "r", "i", "z", "a", "t", "i", "o", "n", ":", " ", "B", "e", "a", "r", "e", "r", " ", "V">>,
      <<"a", "u", "t", "h", "o", "r", "i", "z", "a", "t", "i", "o", "n", ":", " ", "B", "e", "a", "r", "e", "r", " ", "V">>,
      <<"A", "c", "c", "e", "p", "t", "-", "E", "n", "c", "o", "d", "i", "n", "g", ":", " ", "g", "z", "i", "p">>,
      <<"C", "o", "n", "t", "e", "n", "t", "-", "L", "e", "n", "g", "t", "h", ":", " ", "9">>,
      <<"A", "c", "c", "e", "p", "t", ":", " ", "a">> }

RequestBody == <<"{", "}">>

\* the lines of s joined with the line ending eol
RECURSIVE join_lines(_, _)
join_lines(lines, eol) ==
    IF lines = <<>> THEN <<>>
    ELSE IF Len(lines) = 1 THEN lines[1]
    ELSE lines[1] \o eol \o join_lines(Tail(lines), eol)

HeaderBlocks == UNION { [1..n -> HeaderLines] : n \in 0..MaxHeaders }

\* what may follow the last header line: nothing, the blank line, the blank
\* line and a body
Endings(eol) == { <<>>, eol \o eol, eol \o eol \o RequestBody }

\* the request files: a request line, header lines, an optional blank line and body
RawTextsWith(eol) ==
    { join_lines(<<rl>> \o hs, eol) \o ending :
        rl \in RequestLines, hs \in HeaderBlocks, ending \in Endings(eol) }

RawTexts == RawTextsWith(LF) \cup RawTextsWith(CRLF)

REQUEST_FILE == "request.txt"

\* the namespaces parser.parse_args can return
Namespaces ==
    { [attacker_token |-> tk, target_host |-> h, request_file |-> REQUEST_FILE,
       use_https |-> s, proxy |-> px] :
        tk \in { <<"t", "k">> }, h \in { <<"h", "/">> }, s \in {TRUE}, px \in {None} }
    \cup
    { [attacker_token |-> <<"t", "k">>, target_host |-> <<"h">>, request_file |-> REQUEST_FILE,
       use_https |-> FALSE, proxy |-> Some(<<"p">>)] }
    \cup
    { [attacker_token |-> tk, target_host |-> h, request_file |-> REQUEST_FILE,
       use_https |-> TRUE, proxy |-> None] :
        tk \in { <<>>, <<" ">>, <<"t", "k">> }, h \in { <<>>, <<" ", "\t">>, <<"h">> } }

\* the responses of the target
Responses ==
    { [status_code |-> c, text |-> b,
       headers |-> [k \in { <<"S", "e", "r", "v", "e", "r">> } |-> <<"s">>]] :
        c \in {200, 403}, b \in { <<>>, <<"o", "k", "\n">> } }

\* the exceptions requests.request raises
TransportErrors == { "ConnectionError", "Timeout" }

\* the exceptions open(...).read() raises in load_request_file
LoadErrors == { "FileNotFoundError", "PermissionError", "UnicodeDecodeError" }

----------------------------------------------------------------------------
(* main() *)

Init ==
    /\ pc = "start"
    /\ args = None
    /\ raw_text = None
    /\ parsed = None
    /\ sent = <<>>
    /\ result = None
    /\ stdout = <<>>
    /\ stderr = <<>>
    /\ exit_code = None
    /\ call = None
    /\ ret = None

\* sys.exit(status), or a return of status from main, after printing message to stderr
Exit(status, message) ==
    /\ pc' = "exited"
    /\ exit_code' = Some(status)
    /\ stderr' = IF message = "" THEN stderr ELSE Append(stderr, message)

\* parser.parse_args(argv) rejects the command line: usage on stderr, status 2
parse_cli_usage ==
    /\ pc = "start"
    /\ Exit(2, "usage: auth-fusion")
    /\ UNCHANGED <<args, raw_text, parsed, sent, result, stdout, call, ret>>

\* --help or --version: argparse prints and exits with status 0
parse_cli_info ==
    /\ pc = "start"
    /\ Exit(0, "")
    /\ stdout' = Append(stdout, "auth-fusion version/help")
    /\ UNCHANGED <<args, raw_text, parsed, sent, result, call, ret>>

\* parse_cli: parse_args returns a namespace, validate_args checks it
parse_cli ==
    /\ pc = "start"
    /\ \E ns \in Namespaces, isfile \in BOOLEAN, readable \in BOOLEAN :
        LET failure == validate_args(ns, isfile, readable)
        IN  /\ args' = Some(ns)
            /\ IF failure # None
               THEN Exit(failure[1].status, failure[1].message)
               ELSE /\ pc' = "load"
                    /\ UNCHANGED <<exit_code, stderr>>
    /\ UNCHANGED <<raw_text, parsed, sent, result, stdout, call, ret>>

\* load_request_file(args.request_file) and the except clause around it
load ==
    /\ pc = "load"
    /\ stdout' = Append(stdout, "[*] Loading raw request from")
    /\ \/ \E text \in RawTexts :
            /\ raw_text' = Some(text)
            /\ pc' = "parse"
            /\ UNCHANGED <<exit_code, stderr>>
       \/ \E exc \in LoadErrors :
            /\ IF load_error_caught(exc)
               THEN Exit(2, "Error reading request file")
               ELSE Exit(1, "Traceback (most recent call last)")
            /\ UNCHANGED raw_text
    /\ UNCHANGED <<args, parsed, sent, result, call, ret>>

\* parse_raw_request(raw_text) and the except ValueError clause around it
parse ==
    /\ pc = "parse"
    /\ LET r == parse_raw_request(raw_text[1])
       IN  IF r.raised
           THEN /\ Exit(2, "Error parsing request")
                /\ stdout' = Append(stdout, "[*] Parsing raw HTTP request...")
                /\ UNCHANGED parsed
           ELSE /\ parsed' = Some(r.value)
                /\ stdout' = stdout \o <<"[*] Parsing raw HTTP request...", "    Method/Path/Headers/Body">>
                /\ pc' = "replay"
                /\ UNCHANGED <<exit_code, stderr>>
    /\ UNCHANGED <<args, raw_text, sent, result, call, ret>>

\* replay_request making the call a second time
replay_calls_retry(parsed_request, ns) ==
    << outbound_call(parsed_request, ns.attacker_token, ns.target_host,
                     ns.use_https, ns.proxy, DEFAULT_TIMEOUT),
       outbound_call(parsed_request, ns.attacker_token, ns.target_host,
                     ns.use_https, ns.proxy, DEFAULT_TIMEOUT) >>

\* the calls of requests.request one invocation of replay_request makes
replay_calls(parsed_request, ns) ==
    << outbound_call(parsed_request, ns.attacker_token, ns.target_host,
                     ns.use_https, ns.proxy, DEFAULT_TIMEOUT) >>

\* replay with an except clause that prints the error and returns 0
replay_swallows_error ==
    /\ pc = "replay"
    /\ stdout' = Append(stdout, "[*] Replaying request to")
    /\ sent' = sent \o replay_calls(parsed[1], args[1])
    /\ \/ \E response \in Responses :
            /\ result' = Some(ReplayResult(response))
            /\ pc' = "report"
            /\ UNCHANGED <<exit_code, stderr>>
       \/ \E exc \in TransportErrors :
            /\ Exit(0, "Error during request replay")
            /\ UNCHANGED result
    /\ parsed' = Some([parsed[1] EXCEPT
                         !.headers = replay_heap(parsed[1], args[1].attacker_token).heap[HEADERS]])
    /\ UNCHANGED <<args, raw_text, call, ret>>

\* replay_request(...) and the except Exception clause around it
replay ==
    /\ pc = "replay"
    /\ stdout' = Append(stdout, "[*] Replaying request to")
    /\ sent' = sent \o replay_calls(parsed[1], args[1])
    /\ \/ \E response \in Responses :
            /\ result' = Some(ReplayResult(response))
            /\ pc' = "report"
            /\ UNCHANGED <<exit_code, stderr>>
       \/ \E exc \in TransportErrors :
            /\ Exit(2, "Error during request replay")
            /\ UNCHANGED result
    /\ parsed' = Some([parsed[1] EXCEPT
                         !.headers = replay_heap(parsed[1], args[1].attacker_token).heap[HEADERS]])
    /\ UNCHANGED <<args, raw_text, call, ret>>

\* print_report(result); return 1 if result.is_vulnerable else 0
report ==
    /\ pc = "report"
    /\ stdout' = Append(stdout, IF result[1].is_vulnerable
                                THEN "AUTH-FUSION report: Vulnerable YES, headers, body"
                                ELSE "AUTH-FUSION report: Vulnerable NO")
    /\ Exit(verdict_status(result[1]), "")
    /\ UNCHANGED <<args, raw_text, parsed, sent, result, call, ret>>

Next ==
    \/ parse_cli_usage
    \/ parse_cli_info
    \/ parse_cli
    \/ load
    \/ parse
    \/ replay
    \/ report

Spec == Init /\ [][Next]_vars

----------------------------------------------------------------------------
(* The functions of engine.py called on their own *)

\* the longest response body
MaxBodyLen == 3

\* the largest status code
MaxStatus == 600

HeaderNames ==
    { <<"A", "u", "t", "h", "o", "r", "i", "z", "a", "t", "i", "o", "n">>,
      <<"a", "u", "t", "h", "o", "r", "i", "z", "a", "t", "i", "o", "n">>,
      <<"A", "U", "T", "H", "O", "R", "I", "Z", "A", "T", "I", "O", "N">>,
      <<"H", "o", "s", "t">>,
      <<"H", "O", "S", "T">>,
      <<"A", "c", "c", "e", "p", "t", "-", "E", "n", "c", "o", "d", "i", "n", "g">>,
      <<"A", "c", "c", "e", "p", "t">> }

HeaderValues == { <<"B", "e", "a", "r", "e", "r", " ", "V">>, <<"v">> }

\* the header mappings of at most MaxHeaders headers
HeaderDicts ==
    UNION { [ks -> HeaderValues] : ks \in { s \in SUBSET HeaderNames : Cardinality(s) <= MaxHeaders } }

Tokens == { <<>>, <<"t", "k">> }

BodyChars == { "a", " ", "\n" }

Bodies == UNION { [1..n -> BodyChars] : n \in 0..MaxBodyLen }

StatusCodes == (0 - 1)..MaxStatus

Hosts == { <<>>, <<"h">>, <<"h", "/">>, <<"h", "/", "/">> }

Paths == { <<>>, <<"x">>, <<"/", "x">>, <<"/", "/", "x">>, <<"x", "/">> }

EngineCalls ==
    { [op |-> "swap_token", headers |-> h, attacker_token |-> tk] :
        h \in HeaderDicts, tk \in Tokens }
    \cup
    { [op |-> "analyze_response", status_code |-> c, text |-> b] :
        c \in StatusCodes, b \in Bodies }
    \cup
    { [op |-> "build_url", target_host |-> h, path |-> pa, use_https |-> s] :
        h \in Hosts, pa \in Paths, s \in BOOLEAN }

InitEngine ==
    /\ pc = "unit"
    /\ args = None
    /\ raw_text = None
    /\ parsed = None
    /\ sent = <<>>
    /\ result = None
    /\ stdout = <<>>
    /\ stderr = <<>>
    /\ exit_code = None
    /\ call \in { Some(c) : c \in EngineCalls }
    /\ ret = None

call_swap_token ==
    /\ pc = "unit" /\ ret = None /\ call[1].op = "swap_token"
    /\ LET after == swap_token_call(heap_of(call[1].headers), HEADERS, call[1].attacker_token)
       IN  /\ ret' = Some(after.heap[after.returned])
           /\ call' = Some([call[1] EXCEPT !.headers = after.heap[HEADERS]])
    /\ UNCHANGED <<pc, args, raw_text, parsed, sent, result, stdout, stderr, exit_code>>

\* swap_token called again on the mapping it returned, with the same token
call_swap_token_again ==
    /\ pc = "unit" /\ Len(ret) = 1 /\ call[1].op = "swap_token"
    /\ LET after == swap_token_call(heap_of(ret[1]), HEADERS, call[1].attacker_token)
       IN  ret' = <<after.heap[HEADERS], after.heap[after.returned]>>
    /\ UNCHANGED <<pc, args, raw_text, parsed, sent, result, stdout, stderr, exit_code, call>>

call_analyze_response ==
    /\ pc = "unit" /\ ret = None /\ call[1].op = "analyze_response"
    /\ ret' = Some(analyze_response(call[1].status_code, call[1].text))
    /\ UNCHANGED <<pc, args, raw_text, parsed, sent, result, stdout, stderr, exit_code, call>>

call_build_url ==
    /\ pc = "unit" /\ ret = None /\ call[1].op = "build_url"
    /\ ret' = Some(build_url(call[1].target_host, call[1].path, call[1].use_https))
    /\ UNCHANGED <<pc, args, raw_text, parsed, sent, result, stdout, stderr, exit_code, call>>

NextEngine ==
    \/ call_swap_token
    \/ call_swap_token_again
    \/ call_analyze_response
    \/ call_build_url

SpecEngine == InitEngine /\ [][NextEngine]_vars

----------------------------------------------------------------------------
(* parse_raw_request called on its own *)

\* the longest of the texts over ParserChars
MaxTextLen == 4

ParserRequestLines ==
    { <<"G", "E", "T", " ", "/", "x", " ", "H", "T", "T", "P", "/", "1", ".", "1">>,
      <<"g", "e", "t", " ", "x", " ", "v">>,
      <<" ", "p", "u", "t", "\t", "\t", "/", "y", " ">>,
      <<"B", "A", "D">>,
      <<" ">> }

ParserHeaderLines ==
    { <<"A", ":", " ", "1">>,
      <<"A", ":", "2", ":", "3">>,
      <<"a", ":", " ", "3">>,
      <<"n", "o", "c", "o", "l", "o", "n">>,
      <<" ", " ", "B", " ", " ", ":", " ", " ", "x", " ", " ">>,
      <<" ">>,
      <<":", "v">> }

ParserHeaderBlocks == UNION { [1..n -> ParserHeaderLines] : n \in 0..MaxHeaders }

\* the lines of the bodies
ParserBodies == { << <<"{">> >>, << <<" ">> >>, << <<"a">>, <<>>, <<"b">> >>, << <<>>, <<"a">> >> }

ParserEndings(eol) ==
    { <<>>, eol, eol \o eol } \cup { eol \o eol \o join_lines(b, eol) : b \in ParserBodies }

ParserTextsWith(eol) ==
    { join_lines(<<rl>> \o hs, eol) \o ending :
        rl \in ParserRequestLines, hs \in ParserHeaderBlocks, ending \in ParserEndings(eol) }

ParserChars == { "a", " ", ":", "\r", "\n" }

\* every text of at most MaxTextLen characters of ParserChars
ShortTexts == UNION { [1..n -> ParserChars] : n \in 0..MaxTextLen }

ParserTexts == ParserTextsWith(LF) \cup ParserTextsWith(CRLF) \cup ShortTexts

InitParser ==
    /\ pc = "unit"
    /\ args = None
    /\ raw_text = None
    /\ parsed = None
    /\ sent = <<>>
    /\ result = None
    /\ stdout = <<>>
    /\ stderr = <<>>
    /\ exit_code = None
    /\ call \in { Some([op |-> "parse_raw_request", raw_text |-> text]) : text \in ParserTexts }
    /\ ret = None

call_parse_raw_request ==
    /\ pc = "unit" /\ ret = None /\ call[1].op = "parse_raw_request"
    /\ ret' = Some(parse_raw_request(call[1].raw_text))
    /\ UNCHANGED <<pc, args, raw_text, parsed, sent, result, stdout, stderr, exit_code, call>>

NextParser == call_parse_raw_request

SpecParser == InitParser /\ [][NextParser]_vars

----------------------------------------------------------------------------
(* The program run and swap_token called on its own, side by side *)

InitAll == Init \/ InitEngine

NextAll == Next \/ NextEngine

SpecAll == InitAll /\ [][NextAll]_vars

----------------------------------------------------------------------------
(* Properties *)

Range(s) == { s[i] : i \in DOMAIN s }

\* a and b are the same header name, case-insensitively
SameName(a, b) ==
    /\ Len(a) = Len(b)
    /\ \A i \in 1..Len(a) : lower_char(a[i]) = lower_char(b[i])

\* the keys of d that name the header `name`, under any casing
Variants(d, name) == { k \in DOMAIN d : SameName(k, name) }

\* the length of text between its first and its last non-whitespace character
TrimmedLength(text) ==
    LET solid == { i \in 1..Len(text) : text[i] \notin WHITESPACE }
    IN  IF solid = {} THEN 0
        ELSE (CHOOSE i \in solid : \A j \in solid : j <= i)
             - (CHOOSE i \in solid : \A j \in solid : i <= j) + 1

ValidationFailed ==
    Range(stderr) \cap { "Error: Request file not found", "Error: Request file is not readable",
                         "Error: Attacker token cannot be empty.",
                         "Error: Target host cannot be empty.", "usage: auth-fusion" } # {}

\* the request file was missing or could not be read, at validation or at loading
LoadFailed ==
    Range(stderr) \cap { "Error: Request file not found", "Error: Request file is not readable",
                         "Error reading request file", "Traceback (most recent call last)" } # {}

ParseFailed == "Error parsing request" \in Range(stderr)

ReplayFailed == "Error during request replay" \in Range(stderr)

ReplayInvoked == "[*] Replaying request to" \in Range(stdout)

ReportPrinted ==
    Range(stdout) \cap { "AUTH-FUSION report: Vulnerable YES, headers, body",
                         "AUTH-FUSION report: Vulnerable NO" } # {}

\* C1: when the replay returned a response the exit code is 1 if the classifier
\* finds the response vulnerable and 0 otherwise, and a run in which loading,
\* parsing or the replay failed ends with neither 0 nor 1
C1_ExitCodeIsVerdict ==
    pc = "exited" =>
        /\ result # None =>
              exit_code = Some(IF 200 <= result[1].status_code /\ result[1].status_code < 300
                                  /\ TrimmedLength(result[1].body) >= 2
                               THEN 1 ELSE 0)
        /\ (LoadFailed \/ ParseFailed \/ ReplayFailed) =>
              /\ exit_code # Some(0)
              /\ exit_code # Some(1)

\* C2: every run that ends in a failure (request file missing or unreadable,
\* malformed request line, exception of the outbound call) ends with exit code 2
C2_FailureExitsWithTwo ==
    (pc = "exited" /\ (LoadFailed \/ ParseFailed \/ ReplayFailed)) => exit_code = Some(2)

\* C3: the verdict of analyze_response is vulnerable exactly when the status is
\* in [200, 300) and the trimmed body has at least 2 characters, and its
\* rationale is the one of the first rule that matches, in the order 401/403,
\* 404, 2xx with a payload, 2xx, any other status
C3_ClassifierRules ==
    (call # None /\ call[1].op = "analyze_response" /\ ret # None) =>
        LET code == call[1].status_code
            n == TrimmedLength(call[1].text)
            success == 200 <= code /\ code < 300
        IN  /\ ret[1].is_vulnerable \in BOOLEAN
            /\ ret[1].is_vulnerable <=> (success /\ n >= 2)
            /\ ret[1].tag = CASE code = 401 \/ code = 403 -> "[SAFE]"
                              [] code = 404 -> "[INCONCLUSIVE]"
                              [] success /\ n >= 2 -> "[VULNERABLE]"
                              [] success /\ n < 2 -> "[LIKELY SAFE]"
                              [] OTHER -> "[MANUAL REVIEW]"

\* C3 witness: a 2xx response whose body has whitespace around exactly two
\* characters was classified vulnerable
C3_Witness ==
    /\ call # None /\ call[1].op = "analyze_response" /\ ret # None
    /\ call[1].status_code = 299
    /\ Len(call[1].text) = 3 /\ TrimmedLength(call[1].text) = 2
    /\ ret[1].is_vulnerable

\* C4: one invocation of replay makes exactly one outbound request, whether it
\* returns or fails, so a run makes at most one, and none when validation,
\* loading or parsing failed
C4_OneRequestNoRetry ==
    /\ Len(sent) <= 1
    /\ Len(sent) = (IF ReplayInvoked THEN 1 ELSE 0)
    /\ (ValidationFailed \/ LoadFailed \/ ParseFailed) => sent = <<>>

\* C4 witness: the outbound call failed and one request was made
C4_Witness == pc = "exited" /\ ReplayFailed /\ Len(sent) = 1

\* C5: with an empty or whitespace-only attacker token or target host the run
\* fails in argument validation: nothing is loaded, parsed or sent
C5_EmptyConfigFailsFast ==
    (args # None /\ (strip(args[1].attacker_token) = <<>> \/ strip(args[1].target_host) = <<>>)) =>
        /\ pc = "exited"
        /\ exit_code # None /\ exit_code # Some(0)
        /\ Len(stderr) = 1 /\ ValidationFailed
        /\ raw_text = None /\ parsed = None /\ result = None
        /\ sent = <<>>
        /\ stdout = <<>>

\* C5 witness: the request file is there and readable, the token is
\* whitespace-only, and validation rejected it
C5_Witness ==
    /\ args # None /\ args[1].attacker_token = <<" ">>
    /\ stderr = <<"Error: Attacker token cannot be empty.">>
    /\ pc = "exited"

\* C6: a failed outbound call leaves no ReplayResult and no report, only the
\* one replay error and an exit code other than 0 and 1; once the call was
\* made there is either that error or a full ReplayResult, never both or neither
C6_ReplayAllOrNothing ==
    /\ ReplayFailed =>
          /\ result = None
          /\ ~ReportPrinted
          /\ stderr = <<"Error during request replay">>
          /\ pc = "exited" /\ exit_code # None /\ exit_code[1] \notin {0, 1}
    /\ sent # <<>> => (ReplayFailed <=> result = None)
    /\ ReportPrinted => result # None
    /\ result # None =>
          /\ DOMAIN result[1] = {"status_code", "headers", "body", "is_vulnerable", "analysis"}
          /\ \E response \in Responses :
                /\ result[1].status_code = response.status_code
                /\ result[1].headers = response.headers
                /\ result[1].body = response.text
          /\ result[1].is_vulnerable \in BOOLEAN
          /\ result[1].analysis.tag \in {"[SAFE]", "[INCONCLUSIVE]", "[VULNERABLE]",
                                         "[LIKELY SAFE]", "[MANUAL REVIEW]"}

\* C6 witness: the outbound call raised and the run has ended
C6_Witness == pc = "exited" /\ ReplayFailed /\ sent # <<>> /\ exit_code = Some(2)

\* C7 as stated: the key "Authorization" of swap_token's result is
\* "Bearer " + token for every header mapping
C7_AuthorizationKeyLookup ==
    (call # None /\ call[1].op = "swap_token" /\ ret # None) =>
        /\ AUTHORIZATION_KEY \in DOMAIN ret[1]
        /\ ret[1][AUTHORIZATION_KEY] = BEARER_PREFIX \o call[1].attacker_token

\* C7 amended: every key of the result that is "authorization" under any
\* casing holds "Bearer " + token and there is at least one; the key spelled
\* "Authorization" is one of them exactly when the input had that key or had
\* no casing variant of it
C7_EveryVariantHoldsToken ==
    (call # None /\ call[1].op = "swap_token" /\ ret # None) =>
        /\ Variants(ret[1], AUTHORIZATION_KEY) # {}
        /\ \A k \in Variants(ret[1], AUTHORIZATION_KEY) :
              ret[1][k] = BEARER_PREFIX \o call[1].attacker_token
        /\ AUTHORIZATION_KEY \in DOMAIN ret[1]
              <=> (AUTHORIZATION_KEY \in DOMAIN call[1].headers
                   \/ Variants(call[1].headers, AUTHORIZATION_KEY) = {})

\* C7 witness: the only Authorization header of the input is spelled
\* "authorization" and swap_token has returned
C7_Witness ==
    /\ call # None /\ call[1].op = "swap_token" /\ ret # None
    /\ Variants(call[1].headers, AUTHORIZATION_KEY) = { AUTHORIZATION_LOWER }
    /\ call[1].headers[AUTHORIZATION_LOWER] = <<"B", "e", "a", "r", "e", "r", " ", "V">>
    /\ call[1].attacker_token = <<"t", "k">>

\* C8 as stated: the result of swap_token has exactly one header named
\* "authorization" under any casing
C8_ExactlyOneAuthorization ==
    (call # None /\ call[1].op = "swap_token" /\ ret # None) =>
        Cardinality(Variants(ret[1], AUTHORIZATION_KEY)) = 1

\* C8 amended: the result keeps every casing variant of the input, so it has
\* as many as the input had, and the one key "Authorization" when the input
\* had none
C8_VariantsKept ==
    (call # None /\ call[1].op = "swap_token" /\ ret # None) =>
        Variants(ret[1], AUTHORIZATION_KEY) =
            IF Variants(call[1].headers, AUTHORIZATION_KEY) = {}
            THEN { AUTHORIZATION_KEY }
            ELSE Variants(call[1].headers, AUTHORIZATION_KEY)

\* C8 witness: the input has two casing variants and swap_token has returned
C8_Witness ==
    /\ call # None /\ call[1].op = "swap_token" /\ ret # None
    /\ Cardinality(Variants(call[1].headers, AUTHORIZATION_KEY)) = 2

\* C9: no header of an outbound call is named "host" under any casing
C9_NoHostHeaderSent ==
    \A i \in DOMAIN sent : Variants(sent[i].headers, <<"h", "o", "s", "t">>) = {}

\* C9 witness: the captured request had the headers "Host" and "host" and was replayed
C9_Witness ==
    /\ sent # <<>>
    /\ { <<"H", "o", "s", "t">>, <<"h", "o", "s", "t">> } \subseteq DOMAIN parsed[1].headers

\* C10: no header of an outbound call is named "accept-encoding" or
\* "content-length" under any casing
C10_NoEncodingOrLengthSent ==
    \A i \in DOMAIN sent :
        /\ Variants(sent[i].headers, <<"a", "c", "c", "e", "p", "t", "-", "e", "n", "c", "o", "d", "i", "n", "g">>) = {}
        /\ Variants(sent[i].headers, <<"c", "o", "n", "t", "e", "n", "t", "-", "l", "e", "n", "g", "t", "h">>) = {}

\* the scheme, "://", the host and the path, "/" put before a path that does
\* not start with one
UrlOf(use_https, host, path) ==
    (IF use_https THEN <<"h", "t", "t", "p", "s">> ELSE <<"h", "t", "t", "p">>)
    \o <<":", "/", "/">> \o host
    \o (IF path # <<>> /\ path[1] = "/" THEN path ELSE <<"/">> \o path)

\* host without its last character when that is a slash
OneSlashRemoved(host) ==
    IF host # <<>> /\ host[Len(host)] = "/" THEN SubSeq(host, 1, Len(host) - 1) ELSE host

\* host up to its last character that is not a slash
AllSlashesRemoved(host) ==
    LET solid == { i \in 1..Len(host) : host[i] # "/" }
    IN  IF solid = {} THEN <<>>
        ELSE SubSeq(host, 1, CHOOSE i \in solid : \A j \in solid : j <= i)

\* C12 as stated: build_url is scheme://host'path', host' being the host
\* with a single trailing slash removed
C12_SingleSlashRemoved ==
    (call # None /\ call[1].op = "build_url" /\ ret # None) =>
        ret[1] = UrlOf(call[1].use_https, OneSlashRemoved(call[1].target_host), call[1].path)

\* C12 amended: build_url is scheme://host'path', host' being the host with
\* every trailing slash removed, path' the path with "/" put before it exactly
\* when it does not start with one
C12_EverySlashRemoved ==
    (call # None /\ call[1].op = "build_url" /\ ret # None) =>
        ret[1] = UrlOf(call[1].use_https, AllSlashesRemoved(call[1].target_host), call[1].path)

\* C12 witness: a host ending in two slashes and a path without a leading
\* slash were built into a URL
C12_Witness ==
    /\ call # None /\ call[1].op = "build_url" /\ ret # None
    /\ call[1].target_host = <<"h", "/", "/">>
    /\ call[1].path = <<"x">>

\* C15 as stated: swap_token applied twice with one token gives the mapping
\* it gives applied once, and that mapping has a single Authorization entry
C15_IdempotentSingleEntry ==
    (call # None /\ call[1].op = "swap_token" /\ Len(ret) = 2) =>
        /\ ret[2] = ret[1]
        /\ Cardinality(Variants(ret[2], AUTHORIZATION_KEY)) = 1

\* C15 amended: swap_token applied twice with one token gives the mapping it
\* gives applied once, key for key and value for value, with the
\* Authorization entries of the first application: one, or as many casing
\* variants as the input had
C15_Idempotent ==
    (call # None /\ call[1].op = "swap_token" /\ Len(ret) = 2) =>
        /\ DOMAIN ret[2] = DOMAIN ret[1]
        /\ \A k \in DOMAIN ret[1] : ret[2][k] = ret[1][k]
        /\ Variants(ret[2], AUTHORIZATION_KEY) = Variants(ret[1], AUTHORIZATION_KEY)
        /\ Cardinality(Variants(ret[2], AUTHORIZATION_KEY)) =
              IF Cardinality(Variants(call[1].headers, AUTHORIZATION_KEY)) > 1
              THEN Cardinality(Variants(call[1].headers, AUTHORIZATION_KEY))
              ELSE 1

\* C15 witness: swap_token was applied twice to a mapping whose
\* "authorization" header held another credential
C15_Witness ==
    /\ call # None /\ call[1].op = "swap_token" /\ Len(ret) = 2
    /\ AUTHORIZATION_LOWER \in DOMAIN call[1].headers
    /\ call[1].headers[AUTHORIZATION_LOWER] = <<"B", "e", "a", "r", "e", "r", " ", "V">>
    /\ call[1].attacker_token = <<"t", "k">>

\* C18: every header of an outbound call named "authorization" under any
\* casing holds "Bearer " + the attacker's token, and there is at least one
C18_OnlyAttackerCredentialSent ==
    \A i \in DOMAIN sent :
        /\ Variants(sent[i].headers, AUTHORIZATION_KEY) # {}
        /\ \A k \in Variants(sent[i].headers, AUTHORIZATION_KEY) :
              sent[i].headers[k] = BEARER_PREFIX \o args[1].attacker_token

\* C18 witness: the captured request carried the victim's credential under
\* two casings of the header name and was replayed
C18_Witness ==
    /\ sent # <<>>
    /\ Variants(parsed[1].headers, AUTHORIZATION_KEY) = { AUTHORIZATION_KEY, AUTHORIZATION_LOWER }
    /\ \A k \in Variants(parsed[1].headers, AUTHORIZATION_KEY) :
          parsed[1].headers[k] = <<"B", "e", "a", "r", "e", "r", " ", "V">>

\* the least member of a non-empty set of numbers
Least(S) == CHOOSE i \in S : \A j \in S : i <= j

\* the greatest member of a non-empty set of numbers
Greatest(S) == CHOOSE i \in S : \A j \in S : j <= i

\* the first line of a text: what stands before its first line feed
FirstLine(text) ==
    LET feeds == { i \in 1..Len(text) : text[i] = "\n" }
    IN  IF feeds = {} THEN text ELSE SubSeq(text, 1, Least(feeds) - 1)

\* where the whitespace-separated tokens of a line start
TokenStarts(line) ==
    { i \in 1..Len(line) :
        line[i] \notin WHITESPACE /\ (i = 1 \/ line[i - 1] \in WHITESPACE) }

\* the token of a line that starts at i
TokenAt(line, i) ==
    LET stops == { j \in i..Len(line) : j = Len(line) \/ line[j + 1] \in WHITESPACE }
    IN  SubSeq(line, i, Least(stops))

\* a parse_raw_request call has returned or raised
Parsed == call # None /\ call[1].op = "parse_raw_request" /\ ret # None

\* C13: parse_raw_request raises ValueError exactly when the first line of
\* the raw text has fewer than two whitespace-separated tokens; otherwise the
\* method is the first token upper-cased, the path is the second token, both
\* non-empty, whatever tokens follow
C13_RequestLine ==
    Parsed =>
        LET line == FirstLine(call[1].raw_text)
            starts == TokenStarts(line)
        IN  /\ ret[1].raised <=> Cardinality(starts) < 2
            /\ ret[1].raised => ret[1].error = "ValueError"
            /\ ~ret[1].raised =>
                  LET first == TokenAt(line, Least(starts))
                      second == TokenAt(line, Least(starts \ {Least(starts)}))
                  IN  /\ ret[1].value.method = [i \in 1..Len(first) |-> upper_char(first[i])]
                      /\ ret[1].value.path = second
                      /\ ret[1].value.method # <<>>
                      /\ ret[1].value.path # <<>>

\* C13 witness: a request line of three tokens with a lower-case method was
\* parsed
C13_Witness ==
    /\ Parsed
    /\ FirstLine(call[1].raw_text) = <<"g", "e", "t", " ", "x", " ", "v">>
    /\ ~ret[1].raised
    /\ ret[1].value.method = <<"G", "E", "T">>
    /\ ret[1].value.path = <<"x">>

\* a text with every line feed written as carriage return, line feed
RECURSIVE WithCRLF(_)
WithCRLF(text) ==
    IF text = <<>> THEN <<>>
    ELSE (IF Head(text) = "\n" THEN <<"\r", "\n">> ELSE <<Head(text)>>) \o WithCRLF(Tail(text))

\* a text whose line endings are all bare line feeds
WrittenWithLF(text) ==
    \A i \in 1..(Len(text) - 1) : ~(text[i] = "\r" /\ text[i + 1] = "\n")

\* C14: a raw text written with LF line endings and the same text with
\* every LF written as CRLF both raise, or both parse to the same method,
\* path, headers and body
C14_LineEndingsInterchangeable ==
    (Parsed /\ WrittenWithLF(call[1].raw_text)) =>
        LET other == parse_raw_request(WithCRLF(call[1].raw_text))
        IN  /\ other.raised <=> ret[1].raised
            /\ ~ret[1].raised =>
                  /\ other.value.method = ret[1].value.method
                  /\ other.value.path = ret[1].value.path
                  /\ DOMAIN other.value.headers = DOMAIN ret[1].value.headers
                  /\ \A k \in DOMAIN ret[1].value.headers :
                        other.value.headers[k] = ret[1].value.headers[k]
                  /\ other.value.body = ret[1].value.body

\* C14 witness: a text with LF endings, two headers and a body holding a
\* blank line was parsed
C14_Witness ==
    /\ Parsed
    /\ WrittenWithLF(call[1].raw_text)
    /\ ~ret[1].raised
    /\ Cardinality(DOMAIN ret[1].value.headers) = 2
    /\ ret[1].value.body = Some(<<"a", "\n", "\n", "b">>)

\* a text with its line endings normalised: each carriage return that a
\* line feed follows is dropped
RECURSIVE Normalized(_)
Normalized(text) ==
    IF text = <<>> THEN <<>>
    ELSE IF Len(text) >= 2 /\ text[1] = "\r" /\ text[2] = "\n" THEN Normalized(Tail(text))
    ELSE <<Head(text)>> \o Normalized(Tail(text))

\* where the blank lines of a normalised text are: the line feeds that
\* another line feed follows
BlankLines(text) == { i \in 1..(Len(text) - 1) : text[i] = "\n" /\ text[i + 1] = "\n" }

\* what stands after the first blank line of a normalised text
AfterFirstBlankLine(text) == SubSeq(text, Least(BlankLines(text)) + 2, Len(text))

\* C16: with the line endings normalised, the body of a parsed request is
\* absent exactly when the text has no blank line or nothing but whitespace
\* stands after the first one; otherwise it is all that stands after the
\* first blank line, later blank lines included
C16_BodyAfterFirstBlankLine ==
    (Parsed /\ ~ret[1].raised) =>
        LET text == Normalized(call[1].raw_text)
        IN  /\ ret[1].value.body = None <=>
                  \/ BlankLines(text) = {}
                  \/ TrimmedLength(AfterFirstBlankLine(text)) = 0
            /\ ret[1].value.body # None =>
                  ret[1].value.body = Some(AfterFirstBlankLine(text))

\* C16 witness: a CRLF text whose body starts with an empty line was parsed,
\* and its two header lines before the first blank line became headers
C16_Witness ==
    /\ Parsed
    /\ ~ret[1].raised
    /\ ~WrittenWithLF(call[1].raw_text)
    /\ Cardinality(BlankLines(Normalized(call[1].raw_text))) > 1
    /\ ret[1].value.body = Some(<<"\n", "a">>)
    /\ Cardinality(DOMAIN ret[1].value.headers) = 2

\* a text without its leading and trailing whitespace
Trimmed(text) ==
    LET solid == { i \in 1..Len(text) : text[i] \notin WHITESPACE }
    IN  IF solid = {} THEN <<>> ELSE SubSeq(text, Least(solid), Greatest(solid))

\* the head of a normalised text: what stands before its first blank line
HeadOf(text) ==
    IF BlankLines(text) = {} THEN text ELSE SubSeq(text, 1, Least(BlankLines(text)) - 1)

\* where the lines after the first line of a head start
LaterLineStarts(head) == { a \in 2..(Len(head) + 1) : head[a - 1] = "\n" }

\* the line of a head that starts at a
LineFrom(head, a) ==
    SubSeq(head, a, Least({ j \in a..(Len(head) + 1) : j = Len(head) + 1 \/ head[j] = "\n" }) - 1)

\* where the first colon of a line is, the line having one
FirstColon(line) == Least({ i \in 1..Len(line) : line[i] = ":" })

\* the name a header line gives: what stands before its first colon, trimmed
NameOf(line) == Trimmed(SubSeq(Trimmed(line), 1, FirstColon(Trimmed(line)) - 1))

\* the value a header line gives: what stands after its first colon, trimmed
ValueOf(line) ==
    Trimmed(SubSeq(Trimmed(line), FirstColon(Trimmed(line)) + 1, Len(Trimmed(line))))

\* C17: the headers of a parsed request are the names of the lines after
\* the request line that hold a colon, each in its own casing, each with the
\* value of the last line of that very name; name and value are what stands
\* before and after the first colon, trimmed; lines without a colon give
\* nothing
C17_LastValueOfEachName ==
    (Parsed /\ ~ret[1].raised) =>
        LET head == HeadOf(Normalized(call[1].raw_text))
            entries == { a \in LaterLineStarts(head) : ":" \in Range(LineFrom(head, a)) }
            headers == ret[1].value.headers
        IN  /\ DOMAIN headers = { NameOf(LineFrom(head, a)) : a \in entries }
            /\ \A k \in DOMAIN headers :
                  headers[k] =
                      ValueOf(LineFrom(head,
                          Greatest({ a \in entries : NameOf(LineFrom(head, a)) = k })))

\* C17 witness: the header lines "A: 1" and "A:2:3" were parsed, in that
\* order, into the one header A with the value "2:3"
C17_Witness ==
    /\ Parsed
    /\ ~ret[1].raised
    /\ prefix(call[1].raw_text, 19) =
          <<"G", "E", "T", " ", "/", "x", " ", "H", "T", "T", "P", "/", "1", ".", "1", "\n",
            "A", ":", " ">>
    /\ DOMAIN ret[1].value.headers = { <<"A">> }
    /\ ret[1].value.headers[<<"A">>] = <<"2", ":", "3">>

\* C17 case: names that differ in casing only were parsed into two headers
C17_DistinctCasings ==
    /\ Parsed
    /\ ~ret[1].raised
    /\ DOMAIN ret[1].value.headers = { <<"A">>, <<"a">> }

\* C11: no step changes what a call was given: the parsed request keeps its
\* method, path, headers and body through replay_request, whether it returns
\* or raises, and the mapping given to swap_token, on the first call and on
\* the call on its own result, stays what it was
C11_InputsNotMutated ==
    [][ /\ parsed # None => parsed' = parsed
        /\ call # None => call' = call
        /\ Len(ret) = 1 => ret'[1] = ret[1] ]_vars

\* C11 witness: replay_request was given a request with Authorization and Host
\* headers and raised
C11_Witness ==
    /\ sent # <<>>
    /\ exit_code = Some(2)
    /\ AUTHORIZATION_KEY \in DOMAIN parsed[1].headers
    /\ parsed[1].headers[AUTHORIZATION_KEY] = <<"B", "e", "a", "r", "e", "r", " ", "V">>
    /\ Variants(parsed[1].headers, <<"H", "o", "s", "t">>) # {}

====
